---- MODULE Spec2Model ----
(***************************************************************************)
(* Diagram Validation & Repair Engine of Arch-Gen-V2:                      *)
(*   backend/app/validation/diagram_validator.py  (DiagramValidator)       *)
(*   backend/app/validation/diagram_fixer.py      (DiagramAutoFixer)       *)
(*   backend/app/llm/parser.py                    (safe_load_json)         *)
(* Node ids, labels and edge_info are Python strings and are modelled as   *)
(* TLA+ strings; VisualNode / VisualEdge objects live in a heap so that    *)
(* in-place mutation and aliasing are visible.                             *)
(***************************************************************************)
EXTENDS Integers, Sequences, FiniteSets, TLC

\* ------------------------------------------------------------------------
\* Bounds of the explored input space
\* ------------------------------------------------------------------------
MaxIterations == 3
MaxDupNodes == 4
MaxTypedNodes == 3
MaxSmallNodes == 2
MaxLLMNodes == 2
MaxCycleEdges == 3

\* ------------------------------------------------------------------------
\* Python values
\* ------------------------------------------------------------------------
\* Python None for an Optional[str] field (node_id, edge_info, group, label).
NoneVal == "<None>"

\* Truthiness of an Optional[str]: None and "" are falsy.
Truthy(s) == s # NoneVal /\ s # ""

\* DiagramAutoFixer.__init__ default (max_iterations: int = 3).
DEFAULT_MAX_ITERATIONS == 3

\* the separator of ValidationIssue.edge_info, f"{edge.source} -> {edge.target}"
ARROW == " -> "

RECURSIVE SeqToSet(_)
SeqToSet(s) == IF s = <<>> THEN {} ELSE {Head(s)} \cup SeqToSet(Tail(s))

\* s.startswith(prefix)
StartsWith(s, prefix) ==
  /\ s # NoneVal
  /\ Len(s) >= Len(prefix)
  /\ SubSeq(s, 1, Len(prefix)) = prefix

\* s.find(sep) from position i on (1-based; 0 when absent)
RECURSIVE FindFrom(_, _, _)
FindFrom(s, sep, i) ==
  IF i + Len(sep) - 1 > Len(s) THEN 0
  ELSE IF SubSeq(s, i, i + Len(sep) - 1) = sep THEN i
  ELSE FindFrom(s, sep, i + 1)

\* s.split(sep)
RECURSIVE Split(_, _)
Split(s, sep) ==
  LET i == FindFrom(s, sep, 1) IN
  IF i = 0 THEN <<s>>
  ELSE <<SubSeq(s, 1, i - 1)>> \o Split(SubSeq(s, i + Len(sep), Len(s)), sep)

\* " -> ".join(parts)
RECURSIVE Join(_, _)
Join(parts, sep) ==
  IF parts = <<>> THEN ""
  ELSE IF Len(parts) = 1 THEN parts[1]
  ELSE parts[1] \o sep \o Join(Tail(parts), sep)

\* not s.strip(): every character is whitespace
IsBlank(s) == \A i \in 1..Len(s) : SubSeq(s, i, i) = " "

\* s.replace(old, new) for a one-character old
RECURSIVE ReplaceChar(_, _, _)
ReplaceChar(s, old, new) ==
  IF s = "" THEN ""
  ELSE (IF SubSeq(s, 1, 1) = old THEN new ELSE SubSeq(s, 1, 1))
         \o ReplaceChar(SubSeq(s, 2, Len(s)), old, new)

LowerChars == "abcdefghijklmnopqrstuvwxyz"
UpperChars == "ABCDEFGHIJKLMNOPQRSTUVWXYZ"
IsCased(c) == FindFrom(LowerChars, c, 1) > 0 \/ FindFrom(UpperChars, c, 1) > 0
ToUpper(c) == LET i == FindFrom(LowerChars, c, 1) IN
              IF i > 0 THEN SubSeq(UpperChars, i, i) ELSE c
ToLower(c) == LET i == FindFrom(UpperChars, c, 1) IN
              IF i > 0 THEN SubSeq(LowerChars, i, i) ELSE c

\* s.title(): a cased character is upper-cased after an uncased one and
\* lower-cased after a cased one.
RECURSIVE TitleFrom(_, _)
TitleFrom(s, prevCased) ==
  IF s = "" THEN ""
  ELSE LET c == SubSeq(s, 1, 1) IN
       (IF prevCased THEN ToLower(c) ELSE ToUpper(c))
         \o TitleFrom(SubSeq(s, 2, Len(s)), IsCased(c))
Title(s) == TitleFrom(s, FALSE)

\* ------------------------------------------------------------------------
\* visual_schema.py
\* ------------------------------------------------------------------------
VisualNode(id, label, node_type, layer, group, details) ==
  [id |-> id, label |-> label, node_type |-> node_type, layer |-> layer,
   group |-> group, details |-> details]

VisualEdge(source, target, relation, style) ==
  [source |-> source, target |-> target, relation |-> relation, style |-> style]

\* A diagram as the fixer sees it: the object heap (nodeObj, edgeObj) and the
\* diagram's two lists of object references.
Nodes(D) == [i \in 1..Len(D.nodes) |-> D.nodeObj[D.nodes[i]]]
Edges(D) == [i \in 1..Len(D.edges) |-> D.edgeObj[D.edges[i]]]

\* The value of a diagram: what a reader of its nodes and edges observes.
View(D) == [nodes |-> Nodes(D), edges |-> Edges(D)]

\* ------------------------------------------------------------------------
\* diagram_validator.py
\* ------------------------------------------------------------------------
ERROR == "error"
WARNING == "warning"
INFO == "info"

ValidationIssue(severity, code, node_id, edge_info, cycle) ==
  [severity |-> severity, code |-> code, node_id |-> node_id,
   edge_info |-> edge_info, cycle |-> cycle]

EXPECTED_LAYERS == <<"business", "service", "data", "infra">>

NodeIds(g) == {g.nodes[i].id : i \in 1..Len(g.nodes)}
ConnectedIds(g) == {g.edges[i].source : i \in 1..Len(g.edges)}
                     \cup {g.edges[i].target : i \in 1..Len(g.edges)}
Orphaned(g) == NodeIds(g) \ ConnectedIds(g)
Adjacency(g, n) == {g.edges[i].target : i \in {j \in 1..Len(g.edges) : g.edges[j].source = n}}

\* Iteration order of a Python set of strings is not specified.  Every set
\* the validator iterates is ordered by a permutation "ord" of the ids whose
\* relative order can matter.
OrderSensitive(g) ==
  (IF Cardinality(Orphaned(g)) > 1 THEN Orphaned(g) ELSE {})
    \cup UNION {IF Cardinality(Adjacency(g, n)) > 1 THEN Adjacency(g, n) ELSE {}
                : n \in ConnectedIds(g)}
Orders(S) == {f \in [1..Cardinality(S) -> S] : \A i, j \in DOMAIN f : i # j => f[i] # f[j]}
SetOrder(T, ord) ==
  IF T = {} THEN <<>>
  ELSE IF Cardinality(T) = 1 THEN <<CHOOSE x \in T : TRUE>>
  ELSE SelectSeq(ord, LAMBDA x : x \in T)

check_empty_diagram(g) ==
  (IF Len(g.nodes) = 0
     THEN <<ValidationIssue(ERROR, "NO_NODES", NoneVal, NoneVal, <<>>)>> ELSE <<>>)
  \o (IF Len(g.edges) = 0 /\ Len(g.nodes) > 1
        THEN <<ValidationIssue(WARNING, "NO_EDGES", NoneVal, NoneVal, <<>>)>> ELSE <<>>)

\* the keys of a dict filled in list order: first occurrences, in order
RECURSIVE FirstOccurrences(_)
FirstOccurrences(s) ==
  IF s = <<>> THEN <<>>
  ELSE LET front == SubSeq(s, 1, Len(s) - 1)
           last == s[Len(s)] IN
       IF last \in SeqToSet(front) THEN FirstOccurrences(front)
       ELSE Append(FirstOccurrences(front), last)
Count(s, x) == Cardinality({i \in 1..Len(s) : s[i] = x})

check_duplicate_node_ids(g) ==
  LET ids == [i \in 1..Len(g.nodes) |-> g.nodes[i].id]
      dups == SelectSeq(FirstOccurrences(ids), LAMBDA x : Count(ids, x) > 1)
  IN [k \in 1..Len(dups) |->
        ValidationIssue(ERROR, "DUPLICATE_NODE_ID", dups[k], NoneVal, <<>>)]

BlankLabel(label) == ~Truthy(label) \/ IsBlank(label)

check_empty_labels(g) ==
  LET bad == SelectSeq(g.nodes, LAMBDA n : BlankLabel(n.label))
  IN [k \in 1..Len(bad) |->
        ValidationIssue(WARNING, "EMPTY_LABEL", bad[k].id, NoneVal, <<>>)]

check_orphaned_nodes(g, ord) ==
  LET orphaned == SetOrder(Orphaned(g), ord)
  IN [k \in 1..Len(orphaned) |->
        ValidationIssue(WARNING, "ORPHANED_NODE", orphaned[k], NoneVal, <<>>)]

EdgeInfo(e) == e.source \o ARROW \o e.target

RECURSIVE check_missing_edge_references(_, _)
check_missing_edge_references(g, i) ==
  IF i > Len(g.edges) THEN <<>>
  ELSE LET e == g.edges[i] IN
    (IF e.source \notin NodeIds(g)
       THEN <<ValidationIssue(ERROR, "MISSING_SOURCE_NODE", NoneVal, EdgeInfo(e), <<>>)>>
       ELSE <<>>)
    \o (IF e.target \notin NodeIds(g)
          THEN <<ValidationIssue(ERROR, "MISSING_TARGET_NODE", NoneVal, EdgeInfo(e), <<>>)>>
          ELSE <<>>)
    \o check_missing_edge_references(g, i + 1)

check_self_loops(g) ==
  LET loops == SelectSeq(g.edges, LAMBDA e : e.source = e.target)
  IN [k \in 1..Len(loops) |->
        ValidationIssue(WARNING, "SELF_LOOP", loops[k].source, EdgeInfo(loops[k]), <<>>)]

\* key = (edge.source, edge.target, edge.relation or "")
EdgeKey(e) == <<e.source, e.target, IF Truthy(e.relation) THEN e.relation ELSE "">>

check_duplicate_edges(g) ==
  LET keys == [i \in 1..Len(g.edges) |-> EdgeKey(g.edges[i])]
      dups == SelectSeq(FirstOccurrences(keys), LAMBDA k : Count(keys, k) > 1)
  IN [k \in 1..Len(dups) |->
        ValidationIssue(INFO, "DUPLICATE_EDGE", NoneVal,
                        dups[k][1] \o ARROW \o dups[k][2], <<>>)]

\* The iteration order of the set EXPECTED_LAYERS - present_layers decides
\* only the relative order of the MISSING_LAYER issues, which carry no
\* node_id or edge_info; they are listed in declaration order.
check_layer_coverage(g) ==
  LET present == {g.nodes[i].layer : i \in {j \in 1..Len(g.nodes) : Truthy(g.nodes[j].layer)}}
      missing == SelectSeq(EXPECTED_LAYERS, LAMBDA l : l \notin present)
  IN [k \in 1..Len(missing) |->
        ValidationIssue(INFO, "MISSING_LAYER", NoneVal, NoneVal, <<>>)]

\* path.index(x), 1-based; the caller checks membership
IndexOf(path, x) == CHOOSE i \in 1..Len(path) : path[i] = x /\ \A j \in 1..(i - 1) : path[j] # x

\* dfs(node, path) of _check_circular_dependencies; s holds the three
\* closure variables visited, rec_stack and cycles_found.
\* variant: a visited neighbour closes a cycle even when it has left the stack
in_visited(neighbor, s) == neighbor \in s.visited

\* elif neighbor in rec_stack
in_rec_stack(neighbor, s) == neighbor \in s.rec_stack

RECURSIVE dfs(_, _, _, _, _)
RECURSIVE dfs_neighbors(_, _, _, _, _, _, _)
dfs(g, ord, node, path, s) ==
  dfs_neighbors(g, ord, SetOrder(Adjacency(g, node), ord), 1, node, path,
                [s EXCEPT !.visited = @ \cup {node}, !.rec_stack = @ \cup {node}])
dfs_neighbors(g, ord, nbrs, i, node, path, s) ==
  IF i > Len(nbrs)
    THEN [found |-> FALSE, s |-> [s EXCEPT !.rec_stack = @ \ {node}]]
  ELSE LET neighbor == nbrs[i] IN
    IF neighbor \notin s.visited
      THEN LET r == dfs(g, ord, neighbor, Append(path, neighbor), s) IN
           IF r.found THEN r
           ELSE dfs_neighbors(g, ord, nbrs, i + 1, node, path, r.s)
    ELSE IF in_rec_stack(neighbor, s)
      THEN LET cycle_start == IF neighbor \in SeqToSet(path) THEN IndexOf(path, neighbor) ELSE 1
               cycle == Append(SubSeq(path, cycle_start, Len(path)), neighbor)
           IN [found |-> TRUE, s |-> [s EXCEPT !.cycles_found = Append(@, cycle)]]
    ELSE dfs_neighbors(g, ord, nbrs, i + 1, node, path, s)

RECURSIVE dfs_roots(_, _, _, _)
dfs_roots(g, ord, i, s) ==
  IF i > Len(g.nodes) THEN s
  ELSE LET node == g.nodes[i].id IN
       IF node \notin s.visited
         THEN dfs_roots(g, ord, i + 1, dfs(g, ord, node, <<node>>, s).s)
         ELSE dfs_roots(g, ord, i + 1, s)

\* cycles_found[:3]
MAX_REPORTED_CYCLES == 3

check_circular_dependencies(g, ord) ==
  LET s == dfs_roots(g, ord, 1, [visited |-> {}, rec_stack |-> {}, cycles_found |-> <<>>])
      found == s.cycles_found
      first == SubSeq(found, 1, IF Len(found) < MAX_REPORTED_CYCLES THEN Len(found)
                                ELSE MAX_REPORTED_CYCLES)
  IN [k \in 1..Len(first) |->
        ValidationIssue(WARNING, "CIRCULAR_DEPENDENCY", NoneVal, NoneVal, first[k])]

Outgoing(g, id) == Cardinality({i \in 1..Len(g.edges) : g.edges[i].source = id})
Incoming(g, id) == Cardinality({i \in 1..Len(g.edges) : g.edges[i].target = id})

RECURSIVE check_node_type_connections(_, _)
check_node_type_connections(g, i) ==
  IF i > Len(g.nodes) THEN <<>>
  ELSE LET node == g.nodes[i] IN
    (IF node.node_type = "actor" /\ Outgoing(g, node.id) = 0
       THEN <<ValidationIssue(WARNING, "ACTOR_NO_OUTGOING", node.id, NoneVal, <<>>)>>
       ELSE <<>>)
    \o (IF node.node_type = "database" /\ Incoming(g, node.id) = 0
          THEN <<ValidationIssue(WARNING, "DATABASE_NO_INCOMING", node.id, NoneVal, <<>>)>>
          ELSE <<>>)
    \o (IF node.node_type = "service" /\ Outgoing(g, node.id) = 0 /\ Incoming(g, node.id) = 0
          THEN <<ValidationIssue(WARNING, "ISOLATED_SERVICE", node.id, NoneVal, <<>>)>>
          ELSE <<>>)
    \o check_node_type_connections(g, i + 1)

TypeCount(g, t) == Cardinality({i \in 1..Len(g.nodes) : g.nodes[i].node_type = t})

calculate_stats(g) ==
  [nodes |-> Len(g.nodes),
   edges |-> Len(g.edges),
   orphaned_nodes |-> Cardinality(Orphaned(g)),
   actors |-> TypeCount(g, "actor"),
   services |-> TypeCount(g, "service") + TypeCount(g, "web_app"),
   databases |-> TypeCount(g, "database"),
   infrastructure |-> TypeCount(g, "infrastructure")]

DiagramValidationResult(is_valid, is_complete, issues, stats) ==
  [is_valid |-> is_valid, is_complete |-> is_complete, issues |-> issues, stats |-> stats]

HasSeverity(issues, sev) == \E i \in 1..Len(issues) : issues[i].severity = sev

\* validate() on a diagram object (a VisualDiagram instance is always truthy)
validate_diagram_object(g, strict_mode, ord) ==
  LET issues == check_empty_diagram(g)
                  \o check_duplicate_node_ids(g)
                  \o check_empty_labels(g)
                  \o check_orphaned_nodes(g, ord)
                  \o check_missing_edge_references(g, 1)
                  \o check_self_loops(g)
                  \o check_duplicate_edges(g)
                  \o check_layer_coverage(g)
                  \o check_circular_dependencies(g, ord)
                  \o check_node_type_connections(g, 1)
      stats == calculate_stats(g)
      has_errors == HasSeverity(issues, ERROR)
      has_warnings == HasSeverity(issues, WARNING)
      is_valid == IF strict_mode THEN ~has_errors /\ ~has_warnings ELSE ~has_errors
      is_complete == ~has_errors /\ stats.orphaned_nodes = 0
  IN DiagramValidationResult(is_valid, is_complete, issues, stats)

\* every result validate() can produce for g
Validations(g, strict) ==
  {validate_diagram_object(g, strict, ord) : ord \in Orders(OrderSensitive(g))}

\* validate() on None
validate_none ==
  DiagramValidationResult(FALSE, FALSE,
    <<ValidationIssue(ERROR, "EMPTY_DIAGRAM", NoneVal, NoneVal, <<>>)>>,
    [nodes |-> 0, edges |-> 0])

\* ------------------------------------------------------------------------
\* diagram_fixer.py: classification and Phase A (deterministic fixes)
\* ------------------------------------------------------------------------
AUTO_FIXABLE == {"DUPLICATE_NODE_ID", "DUPLICATE_EDGE", "MISSING_SOURCE_NODE",
                 "MISSING_TARGET_NODE", "SELF_LOOP", "EMPTY_LABEL"}

LLM_FIXABLE == {"ORPHANED_NODE", "NO_EDGES", "ACTOR_NO_OUTGOING",
                "DATABASE_NO_INCOMING", "ISOLATED_SERVICE", "CIRCULAR_DEPENDENCY"}

auto_issues_of(issues) == SelectSeq(issues, LAMBDA i : i.code \in AUTO_FIXABLE)
llm_issues_of(issues) ==
  SelectSeq(issues, LAMBDA i : i.code \notin AUTO_FIXABLE /\ i.code \in LLM_FIXABLE)

\* f"{node.id}_{counter}"
SuffixedId(id, counter) == id \o "_" \o ToString(counter)

\* while new_id in seen: counter += 1
RECURSIVE free_counter(_, _, _)
free_counter(id, counter, seen) ==
  IF SuffixedId(id, counter) \in seen THEN free_counter(id, counter + 1, seen) ELSE counter

\* for edge in diagram.edges: rewrite source / target equal to old
rewrite_edges(D, old, new) ==
  [D EXCEPT !.edgeObj =
     [r \in DOMAIN D.edgeObj |->
        IF r \in SeqToSet(D.edges)
          THEN [D.edgeObj[r] EXCEPT
                  !.source = IF D.edgeObj[r].source = old THEN new ELSE D.edgeObj[r].source,
                  !.target = IF D.edgeObj[r].target = old THEN new ELSE D.edgeObj[r].target]
          ELSE D.edgeObj[r]]]

RECURSIVE rename_duplicates(_, _, _, _, _)
rename_duplicates(D, node_id, i, seen, counter) ==
  IF i > Len(D.nodes) THEN D
  ELSE LET ref == D.nodes[i]
           node == D.nodeObj[ref] IN
    IF node.id = node_id
      THEN IF node.id \in seen
             THEN LET c == free_counter(node.id, counter, seen)
                      new_id == SuffixedId(node.id, c)
                      D1 == rewrite_edges(D, node.id, new_id)
                      D2 == [D1 EXCEPT !.nodeObj[ref].id = new_id]
                  IN rename_duplicates(D2, node_id, i + 1, seen \cup {new_id}, c + 1)
             ELSE rename_duplicates(D, node_id, i + 1, seen \cup {node.id}, counter)
      ELSE rename_duplicates(D, node_id, i + 1, seen, counter)

fix_duplicate_node_id(D, issue) ==
  IF ~Truthy(issue.node_id) THEN [ok |-> FALSE, D |-> D]
  ELSE [ok |-> TRUE, D |-> rename_duplicates(D, issue.node_id, 1, {}, 1)]

\* the references of a list that satisfy keep, in order
RECURSIVE first_per_key(_, _, _)
first_per_key(D, i, seen) ==
  IF i > Len(D.edges) THEN <<>>
  ELSE LET key == EdgeKey(D.edgeObj[D.edges[i]]) IN
       IF key \notin seen
         THEN <<D.edges[i]>> \o first_per_key(D, i + 1, seen \cup {key})
         ELSE first_per_key(D, i + 1, seen)

fix_duplicate_edge(D, issue) ==
  [ok |-> TRUE, D |-> [D EXCEPT !.edges = first_per_key(D, 1, {})]]

fix_missing_node_reference(D, issue) ==
  IF ~Truthy(issue.edge_info) THEN [ok |-> FALSE, D |-> D]
  ELSE LET parts == Split(issue.edge_info, ARROW) IN
    IF Len(parts) # 2 THEN [ok |-> FALSE, D |-> D]
    ELSE [ok |-> TRUE,
          D |-> [D EXCEPT !.edges =
                   SelectSeq(D.edges, LAMBDA r : ~(D.edgeObj[r].source = parts[1]
                                                    /\ D.edgeObj[r].target = parts[2]))]]

fix_self_loop(D, issue) ==
  IF ~Truthy(issue.node_id) THEN [ok |-> FALSE, D |-> D]
  ELSE [ok |-> TRUE,
        D |-> [D EXCEPT !.edges =
                 SelectSeq(D.edges, LAMBDA r : ~(D.edgeObj[r].source = issue.node_id
                                                  /\ D.edgeObj[r].target = issue.node_id))]]

\* index of the first node of the list that satisfies P, 0 when there is none:
\* next((n for n in diagram.nodes if P(n)), None)
FirstNode(D, wanted) ==
  LET hits == {i \in 1..Len(D.nodes) : D.nodeObj[D.nodes[i]] \in wanted} IN
  IF hits = {} THEN 0 ELSE CHOOSE i \in hits : \A j \in hits : i <= j

\* issue.node_id.replace("_", " ").replace("-", " ").title()
DefaultLabel(node_id) == Title(ReplaceChar(ReplaceChar(node_id, "_", " "), "-", " "))

fix_empty_label(D, issue) ==
  IF ~Truthy(issue.node_id) THEN [ok |-> FALSE, D |-> D]
  ELSE LET i == FirstNode(D, {n \in SeqToSet(Nodes(D)) : n.id = issue.node_id}) IN
    IF i = 0 THEN [ok |-> FALSE, D |-> D]
    ELSE [ok |-> TRUE,
          D |-> [D EXCEPT !.nodeObj[D.nodes[i]].label = DefaultLabel(issue.node_id)]]

auto_fix_one(D, issue) ==
  CASE issue.code = "DUPLICATE_NODE_ID" -> fix_duplicate_node_id(D, issue)
    [] issue.code = "DUPLICATE_EDGE" -> fix_duplicate_edge(D, issue)
    [] issue.code = "MISSING_SOURCE_NODE" -> fix_missing_node_reference(D, issue)
    [] issue.code = "MISSING_TARGET_NODE" -> fix_missing_node_reference(D, issue)
    [] issue.code = "SELF_LOOP" -> fix_self_loop(D, issue)
    [] issue.code = "EMPTY_LABEL" -> fix_empty_label(D, issue)
    [] OTHER -> [ok |-> FALSE, D |-> D]

auto_change_text(issue) ==
  CASE issue.code = "DUPLICATE_NODE_ID" -> "Renamed duplicate node: " \o issue.node_id
    [] issue.code = "DUPLICATE_EDGE" -> "Removed duplicate edge: " \o issue.edge_info
    [] issue.code = "MISSING_SOURCE_NODE" -> "Removed edge with missing source: " \o issue.edge_info
    [] issue.code = "MISSING_TARGET_NODE" -> "Removed edge with missing target: " \o issue.edge_info
    [] issue.code = "SELF_LOOP" -> "Removed self-loop on: " \o issue.node_id
    [] issue.code = "EMPTY_LABEL" -> "Set default label for: " \o issue.node_id
    [] OTHER -> ""

\* _apply_auto_fixes: r = [D, changes, fixed]
RECURSIVE apply_auto_fixes(_, _, _)
apply_auto_fixes(r, issues, i) ==
  IF i > Len(issues) THEN r
  ELSE LET f == auto_fix_one(r.D, issues[i]) IN
       IF f.ok
         THEN apply_auto_fixes([D |-> f.D,
                                changes |-> Append(r.changes, auto_change_text(issues[i])),
                                fixed |-> Append(r.fixed, issues[i].code)],
                               issues, i + 1)
         ELSE apply_auto_fixes(r, issues, i + 1)

\* ------------------------------------------------------------------------
\* llm/parser.py and Phase B (LLM-assisted fixes)
\* ------------------------------------------------------------------------
\* What LLMClient.generate does: it raises (timeout, HTTP error, missing
\* key), or returns a text.  A text is described by its JSON content: json
\* is "array" (a JSON array of the objects in items), "object" (one JSON
\* object) or "none" (no JSON at all), and prose says whether other text
\* surrounds the JSON.
LLMRaise == [kind |-> "raise", prose |-> FALSE, json |-> "none", items |-> <<>>]
LLMText(prose, json, items) == [kind |-> "text", prose |-> prose, json |-> json, items |-> items]

\* safe_load_json: json.loads on the whole text, then on the match of
\* r"\{.*\}" (first "{" to last "}"), else {}.
safe_load_json(resp) ==
  IF ~resp.prose /\ resp.json = "array" THEN [type |-> "list", items |-> resp.items]
  ELSE IF ~resp.prose /\ resp.json = "object" THEN [type |-> "dict", items |-> <<>>]
  ELSE IF resp.json = "object" THEN [type |-> "dict", items |-> <<>>]
  ELSE IF resp.json = "array" /\ Len(resp.items) = 1 THEN [type |-> "dict", items |-> <<>>]
  ELSE [type |-> "dict", items |-> <<>>]

\* variant: every proposed edge is applied, whatever its endpoints
suggested_edges_unchecked(D, resp) ==
  IF resp.kind = "raise" THEN <<>>
  ELSE LET edges_data == safe_load_json(resp) IN
    IF edges_data.type # "list" THEN <<>>
    ELSE [k \in 1..Len(edges_data.items) |->
            VisualEdge(edges_data.items[k].from, edges_data.items[k].to,
                       edges_data.items[k].relation, "solid")]

\* the body of the try block shared by _llm_suggest_connections_for_orphans
\* and _llm_suggest_missing_connections
suggested_edges(D, resp) ==
  IF resp.kind = "raise" THEN <<>>
  ELSE LET edges_data == safe_load_json(resp) IN
    IF edges_data.type # "list" THEN <<>>
    ELSE LET node_ids == NodeIds(View(D))
             ok == SelectSeq(edges_data.items,
                             LAMBDA e : e.from \in node_ids /\ e.to \in node_ids)
         IN [k \in 1..Len(ok) |-> VisualEdge(ok[k].from, ok[k].to, ok[k].relation, "solid")]

\* whether the collaborator is called at all
orphan_call_made(issues) ==
  \E i \in 1..Len(issues) : issues[i].code = "ORPHANED_NODE" /\ Truthy(issues[i].node_id)

CONNECTION_CODES == {"ACTOR_NO_OUTGOING", "DATABASE_NO_INCOMING", "ISOLATED_SERVICE"}

connection_call_made(D, issues) ==
  \E i \in 1..Len(issues) :
     /\ issues[i].code \in CONNECTION_CODES
     /\ issues[i].node_id \in NodeIds(View(D))

llm_suggest_connections_for_orphans(D, orphan_issues, resp) ==
  IF ~orphan_call_made(orphan_issues) THEN <<>> ELSE suggested_edges(D, resp)

llm_suggest_missing_connections(D, issues, resp) ==
  IF ~connection_call_made(D, issues) THEN <<>> ELSE suggested_edges(D, resp)

\* diagram.edges.append(edge) / diagram.edges.extend(edges)
RECURSIVE add_edges(_, _)
add_edges(D, new_edges) ==
  IF new_edges = <<>> THEN D
  ELSE add_edges([D EXCEPT !.edgeObj = Append(@, Head(new_edges)),
                           !.edges = Append(@, Len(D.edgeObj) + 1)],
                 Tail(new_edges))
add_edge(D, e) == add_edges(D, <<e>>)

\* whether a collaborator call failed: it raised or its text gave no list
call_failed(resp) == resp.kind = "raise" \/ safe_load_json(resp).type # "list"

\* _apply_llm_fixes: [D, changes, fixed]
apply_llm_fixes(D, issues, resp1, resp2) ==
  LET orphan_nodes == SelectSeq(issues, LAMBDA i : i.code = "ORPHANED_NODE")
      connection_issues == SelectSeq(issues, LAMBDA i : i.code \in CONNECTION_CODES)
      e1 == IF orphan_nodes = <<>> THEN <<>>
            ELSE llm_suggest_connections_for_orphans(D, orphan_nodes, resp1)
      D1 == add_edges(D, e1)
      c1 == IF e1 = <<>> THEN <<>>
            ELSE <<"Added " \o ToString(Len(e1)) \o " connections for orphan nodes via LLM">>
      f1 == IF e1 = <<>> THEN <<>> ELSE [k \in 1..Len(orphan_nodes) |-> "ORPHANED_NODE"]
      e2 == IF connection_issues = <<>> THEN <<>>
            ELSE llm_suggest_missing_connections(D1, connection_issues, resp2)
      D2 == add_edges(D1, e2)
      c2 == IF e2 = <<>> THEN <<>>
            ELSE <<"Added " \o ToString(Len(e2)) \o " missing connections via LLM">>
      f2 == IF e2 = <<>> THEN <<>>
            ELSE [k \in 1..Len(connection_issues) |-> connection_issues[k].code]
  IN [D |-> D2, changes |-> c1 \o c2, fixed |-> f1 \o f2]

\* ------------------------------------------------------------------------
\* Phase C (heuristic fallback fixes)
\* ------------------------------------------------------------------------
NodeAt(D, i) == D.nodeObj[D.nodes[i]]

\* variant: the edge is appended in the opposite direction
connect_reversed_if(D, partner, src, dst, relation, style) ==
  IF partner = 0 THEN [ok |-> FALSE, D |-> D]
  ELSE [ok |-> TRUE, D |-> add_edge(D, VisualEdge(dst, src, relation, style))]

\* connect src -> dst when the partner index is not 0
connect_if(D, partner, src, dst, relation, style) ==
  IF partner = 0 THEN [ok |-> FALSE, D |-> D]
  ELSE [ok |-> TRUE, D |-> add_edge(D, VisualEdge(src, dst, relation, style))]

\* the type-directed strategies of _fallback_fix_orphan
orphan_by_type(D, orphan) ==
  CASE orphan.node_type = "actor" ->
         LET t == FirstNode(D, {n \in SeqToSet(Nodes(D)) : n.node_type \in {"web_app", "service", "gateway"}})
         IN connect_if(D, t, orphan.id, IF t = 0 THEN "" ELSE NodeAt(D, t).id, "uses", "solid")
    [] orphan.node_type = "database" ->
         LET s == FirstNode(D, {n \in SeqToSet(Nodes(D)) : n.node_type \in {"service", "web_app"}})
         IN connect_if(D, s, IF s = 0 THEN "" ELSE NodeAt(D, s).id, orphan.id,
                       "reads/writes", "dotted")
    [] orphan.node_type \in {"service", "web_app"} ->
         LET other_service == FirstNode(D, {n \in SeqToSet(Nodes(D)) : n.node_type \in {"service", "web_app"}
                                                        /\ n.id # orphan.id})
             database == FirstNode(D, {n \in SeqToSet(Nodes(D)) : n.node_type = "database"})
         IN IF other_service # 0
              THEN connect_if(D, other_service, NodeAt(D, other_service).id, orphan.id,
                              "calls", "solid")
              ELSE connect_if(D, database, orphan.id,
                              IF database = 0 THEN "" ELSE NodeAt(D, database).id,
                              "accesses", "dotted")
    [] orphan.node_type \in {"cache", "queue", "gateway", "infrastructure"} ->
         LET s == FirstNode(D, {n \in SeqToSet(Nodes(D)) : n.node_type \in {"service", "web_app"}})
         IN connect_if(D, s, IF s = 0 THEN "" ELSE NodeAt(D, s).id, orphan.id, "uses", "solid")
    [] OTHER -> [ok |-> FALSE, D |-> D]

\* diagram.nodes / diagram.edges rebuilt without the node id
remove_node(D, id) ==
  [D EXCEPT !.nodes = SelectSeq(D.nodes, LAMBDA r : D.nodeObj[r].id # id),
            !.edges = SelectSeq(D.edges, LAMBDA r : D.edgeObj[r].source # id
                                                     /\ D.edgeObj[r].target # id)]

PATTERN_PREFIX == "pattern_"

\* variant: without the last resort of connecting to any other node
fallback_fix_orphan_typed_only(D, issue) ==
  IF ~Truthy(issue.node_id) THEN [ok |-> FALSE, D |-> D]
  ELSE LET oi == FirstNode(D, {n \in SeqToSet(Nodes(D)) : n.id = issue.node_id}) IN
    IF oi = 0 THEN [ok |-> FALSE, D |-> D]
    ELSE LET orphan == NodeAt(D, oi)
             typed == orphan_by_type(D, orphan)
         IN IF typed.ok THEN typed
            ELSE IF Truthy(orphan.group) /\ StartsWith(orphan.group, PATTERN_PREFIX)
              THEN [ok |-> TRUE, D |-> remove_node(D, orphan.id)]
            ELSE [ok |-> FALSE, D |-> D]

fallback_fix_orphan(D, issue) ==
  IF ~Truthy(issue.node_id) THEN [ok |-> FALSE, D |-> D]
  ELSE LET oi == FirstNode(D, {n \in SeqToSet(Nodes(D)) : n.id = issue.node_id}) IN
    IF oi = 0 THEN [ok |-> FALSE, D |-> D]
    ELSE LET orphan == NodeAt(D, oi)
             typed == orphan_by_type(D, orphan)
             any_node == FirstNode(D, {n \in SeqToSet(Nodes(D)) : n.id # orphan.id})
         IN IF typed.ok THEN typed
            ELSE IF Truthy(orphan.group) /\ StartsWith(orphan.group, PATTERN_PREFIX)
              THEN [ok |-> TRUE, D |-> remove_node(D, orphan.id)]
            ELSE connect_if(D, any_node, orphan.id,
                            IF any_node = 0 THEN "" ELSE NodeAt(D, any_node).id,
                            "connects to", "dashed")

fallback_connect_actor(D, issue) ==
  IF ~Truthy(issue.node_id) THEN [ok |-> FALSE, D |-> D]
  ELSE LET t == FirstNode(D, {n \in SeqToSet(Nodes(D)) : n.node_type \in {"web_app", "gateway", "service"}})
       IN connect_if(D, t, issue.node_id, IF t = 0 THEN "" ELSE NodeAt(D, t).id,
                     "uses", "dashed")

fallback_connect_database(D, issue) ==
  IF ~Truthy(issue.node_id) THEN [ok |-> FALSE, D |-> D]
  ELSE LET s == FirstNode(D, {n \in SeqToSet(Nodes(D)) : n.node_type \in {"service", "web_app"}})
       IN connect_if(D, s, IF s = 0 THEN "" ELSE NodeAt(D, s).id, issue.node_id,
                     "reads/writes", "dotted")

fallback_connect_service(D, issue) ==
  IF ~Truthy(issue.node_id) THEN [ok |-> FALSE, D |-> D]
  ELSE LET database == FirstNode(D, {n \in SeqToSet(Nodes(D)) : n.node_type = "database"})
           other == FirstNode(D, {n \in SeqToSet(Nodes(D)) : n.node_type \in {"service", "web_app"}
                                            /\ n.id # issue.node_id})
       IN IF database # 0
            THEN connect_if(D, database, issue.node_id, NodeAt(D, database).id,
                            "accesses", "dotted")
            ELSE connect_if(D, other, issue.node_id,
                            IF other = 0 THEN "" ELSE NodeAt(D, other).id, "calls", "solid")

fallback_create_basic_edges(D) ==
  IF Len(D.nodes) < 2 THEN [ok |-> FALSE, D |-> D]
  ELSE LET ns == Nodes(D)
           actors == SelectSeq(ns, LAMBDA n : n.node_type = "actor")
           services == SelectSeq(ns, LAMBDA n : n.node_type \in {"service", "web_app", "gateway"})
           databases == SelectSeq(ns, LAMBDA n : n.node_type = "database")
           e1 == IF actors # <<>> /\ services # <<>>
                   THEN [k \in 1..Len(actors) |->
                           VisualEdge(actors[k].id, services[1].id, "uses", "dashed")]
                   ELSE <<>>
           e2 == IF services # <<>> /\ databases # <<>>
                   THEN [k \in 1..Len(services) |->
                           VisualEdge(services[k].id, databases[1].id, "accesses", "dotted")]
                   ELSE <<>>
           e3 == IF Len(services) > 1
                   THEN [k \in 1..(Len(services) - 1) |->
                           VisualEdge(services[k].id, services[k + 1].id, "calls", "solid")]
                   ELSE <<>>
       IN [ok |-> e1 \o e2 \o e3 # <<>>, D |-> add_edges(D, e1 \o e2 \o e3)]

fallback_fix_one(D, issue) ==
  CASE issue.code = "ORPHANED_NODE" -> fallback_fix_orphan(D, issue)
    [] issue.code = "ACTOR_NO_OUTGOING" -> fallback_connect_actor(D, issue)
    [] issue.code = "DATABASE_NO_INCOMING" -> fallback_connect_database(D, issue)
    [] issue.code = "ISOLATED_SERVICE" -> fallback_connect_service(D, issue)
    [] issue.code = "NO_EDGES" -> fallback_create_basic_edges(D)
    [] OTHER -> [ok |-> FALSE, D |-> D]

fallback_change_text(issue) ==
  CASE issue.code = "ORPHANED_NODE" -> "Applied fallback fix for orphan: " \o issue.node_id
    [] issue.code = "ACTOR_NO_OUTGOING" -> "Connected actor to first service: " \o issue.node_id
    [] issue.code = "DATABASE_NO_INCOMING" -> "Connected service to database: " \o issue.node_id
    [] issue.code = "ISOLATED_SERVICE" -> "Connected isolated service: " \o issue.node_id
    [] issue.code = "NO_EDGES" -> "Created basic edge structure"
    [] OTHER -> ""

\* _apply_fallback_fixes: r = [D, changes, fixed]
RECURSIVE apply_fallback_fixes(_, _, _)
apply_fallback_fixes(r, issues, i) ==
  IF i > Len(issues) THEN r
  ELSE LET f == fallback_fix_one(r.D, issues[i]) IN
       IF f.ok
         THEN apply_fallback_fixes([D |-> f.D,
                                    changes |-> Append(r.changes, fallback_change_text(issues[i])),
                                    fixed |-> Append(r.fixed, issues[i].code)],
                                   issues, i + 1)
         ELSE apply_fallback_fixes(r, issues, i + 1)

\* ------------------------------------------------------------------------
\* Utility: _deep_copy_diagram
\* ------------------------------------------------------------------------
\* A new VisualNode / VisualEdge object for every node and edge of the
\* source diagram, in fresh lists.  H is the heap, d the source diagram.
\* variant: a copy of the two lists that shares the node and edge objects
shallow_copy_diagram(H, d) ==
  [nodeObj |-> H.nodeObj, edgeObj |-> H.edgeObj, nodes |-> d.nodes, edges |-> d.edges]

\* _deep_copy_diagram: new VisualNode / VisualEdge objects with the same fields
deep_copy_diagram(H, d) ==
  LET nn == Len(H.nodeObj)
      ne == Len(H.edgeObj)
  IN [nodeObj |-> H.nodeObj \o [i \in 1..Len(d.nodes) |-> H.nodeObj[d.nodes[i]]],
      edgeObj |-> H.edgeObj \o [i \in 1..Len(d.edges) |-> H.edgeObj[d.edges[i]]],
      nodes |-> [i \in 1..Len(d.nodes) |-> nn + i],
      edges |-> [i \in 1..Len(d.edges) |-> ne + i]]

FixResult(success, fix_type, issues_fixed, issues_remaining, changes_made, used) ==
  [success |-> success, fix_type |-> fix_type, issues_fixed |-> issues_fixed,
   issues_remaining |-> issues_remaining, changes_made |-> changes_made,
   llm_used |-> used]

\* variant: the codes of all issues, whatever their severity
all_codes(issues) == [k \in 1..Len(issues) |-> issues[k].code]

\* [i.code for i in final_validation.issues if i.severity == ERROR]
error_codes(issues) ==
  LET errs == SelectSeq(issues, LAMBDA i : i.severity = ERROR)
  IN [k \in 1..Len(errs) |-> errs[k].code]

\* variant: success also requires completeness
fix_success_complete(final_validation) ==
  final_validation.is_valid /\ final_validation.is_complete

\* success=final_validation.is_valid
fix_success(final_validation) == final_validation.is_valid

\* variant: the diagram is validated on every iteration
must_validate_always(supplied, it) == TRUE

\* if validation_result is None or iteration > 0
must_validate(supplied, it) == supplied = <<>> \/ it > 0

\* variant: one more iteration than max_iterations
loop_continues_inclusive(it, max) == it <= max

\* for iteration in range(self.max_iterations)
loop_continues(it, max) == it < max

\* ------------------------------------------------------------------------
\* Inputs
\* ------------------------------------------------------------------------
LayerOf(t) ==
  CASE t = "actor" -> "business"
    [] t \in {"service", "web_app", "gateway"} -> "service"
    [] t \in {"database", "cache", "queue"} -> "data"
    [] OTHER -> "infra"

MkNode(id, t, group) == VisualNode(id, "Label", t, LayerOf(t), group, <<>>)
MkEdge(s, t) == VisualEdge(s, t, "calls", "solid")
Graph(nodes, edges) == [nodes |-> nodes, edges |-> edges]

\* sequences of length 1..n over S
SeqsUpTo(S, n) == UNION {[1..k -> S] : k \in 1..n}

\* Graphs with duplicate and colliding ids, shorter ids first, and at most
\* one edge, possibly dangling.
DupIds == {"x", "x_1", "x_1_1"}
DupEdges == {<<>>, <<MkEdge("x", "x")>>, <<MkEdge("x", "x_1")>>, <<MkEdge("x_1", "x")>>,
             <<MkEdge("x", "ghost")>>, <<MkEdge("ghost", "x")>>, <<MkEdge("a -> b", "x")>>}
DupGraphs ==
  {Graph([i \in 1..Len(ids) |-> MkNode(ids[i], "service", NoneVal)], es) :
     ids \in {s \in SeqsUpTo(DupIds, MaxDupNodes) :
                /\ s[1] = "x"
                /\ \A i \in 1..(Len(s) - 1) : Len(s[i]) <= Len(s[i + 1])},
     es \in DupEdges}

\* Graphs of typed nodes with distinct ids and at most one edge.
Kinds == {<<"actor", NoneVal>>, <<"service", NoneVal>>, <<"database", NoneVal>>,
          <<"external", NoneVal>>, <<"cache", "pattern_cache">>}
SmallKinds == Kinds \cup {<<"web_app", NoneVal>>}
TypedIds == <<"n1", "n2", "n3", "n4", "n5">>
TypedEdges == {<<>>, <<MkEdge("n1", "n2")>>, <<MkEdge("n2", "n1")>>}
TypedGraphsOf(kinds, n, edges) ==
  {Graph([i \in 1..Len(ks) |-> MkNode(TypedIds[i], ks[i][1], ks[i][2])], es) :
     ks \in SeqsUpTo(kinds, n), es \in edges}

\* Graphs without edges for the calls that use the collaborator.
LLMKinds == {<<"service", NoneVal>>, <<"database", NoneVal>>}

\* Three nodes in any order with up to MaxCycleEdges edges among them.
CycleIds == {"A", "B", "C"}
CyclePairs == {p \in CycleIds \X CycleIds : p[1] # p[2]}
RECURSIVE SetToEdges(_)
SetToEdges(S) ==
  IF S = {} THEN <<>>
  ELSE LET p == CHOOSE q \in S : TRUE IN <<MkEdge(p[1], p[2])>> \o SetToEdges(S \ {p})
CycleGraphs ==
  {Graph([i \in 1..Cardinality(CycleIds) |-> MkNode(o[i], "service", NoneVal)],
         SetToEdges(S)) :
     o \in Orders(CycleIds),
     S \in {T \in SUBSET CyclePairs : Cardinality(T) <= MaxCycleEdges}}

EmptyGraphs == {Graph(<<>>, <<>>), Graph(<<>>, <<MkEdge("a", "b")>>)}

\* A duplicated id next to the id its rename collides with, on nodes that are
\* pattern-injected or not, alone or beside a gateway.
CollidingIds == <<"x", "x", "x_1">>
CollidingKinds == {<<"cache", "pattern_cache">>, <<"external", NoneVal>>, <<"actor", NoneVal>>}
CollidingGraphs ==
  {Graph([i \in 1..Len(CollidingIds) |-> MkNode(CollidingIds[i], ks[i][1], ks[i][2])] \o more,
         <<>>) :
     ks \in [1..Len(CollidingIds) -> CollidingKinds],
     more \in {<<>>, <<MkNode("g", "gateway", NoneVal)>>}}

\* Two services with blank or non-blank labels, with distinct ids or one id.
LabelIds == {<<"order_db", "n2">>, <<"x", "x">>}
Labels == {"", "Orders"}
LabelGraphs ==
  UNION {{Graph(<<VisualNode(ids[1], l1, "service", "service", NoneVal, <<>>),
                  VisualNode(ids[2], l2, "service", "service", NoneVal, <<>>)>>, es) :
            l1 \in Labels, l2 \in Labels, es \in {<<>>, <<MkEdge(ids[1], ids[2])>>}} :
         ids \in LabelIds}

\* The end-to-end scenario: a duplicated service id, a self-loop on it and an
\* isolated database.
ScenarioGraph ==
  Graph(<<MkNode("user", "actor", NoneVal), MkNode("api", "web_app", NoneVal),
          MkNode("orders", "service", NoneVal), MkNode("orders", "service", NoneVal),
          MkNode("ordersDb", "database", NoneVal)>>,
        <<MkEdge("user", "api"), MkEdge("api", "orders"), MkEdge("orders", "orders")>>)

\* supplied is the validation_result argument of fix(): <<>> is None
Config(api, strict, max, llm, client) ==
  [api |-> api, strict |-> strict, max_iterations |-> max, use_llm |-> llm,
   client_ok |-> client, supplied |-> <<>>]

DefaultFix == Config("fix", FALSE, DEFAULT_MAX_ITERATIONS, FALSE, TRUE)

\* every way the three entry points are called on small inputs
AllConfigs ==
  {Config("validate", st, DEFAULT_MAX_ITERATIONS, FALSE, TRUE) : st \in BOOLEAN}
    \cup {Config("fix", FALSE, m, FALSE, TRUE) : m \in 0..MaxIterations}
    \cup {Config("validate_and_fix", FALSE, DEFAULT_MAX_ITERATIONS, FALSE, TRUE)}
LLMConfigs ==
  {Config("fix", FALSE, DEFAULT_MAX_ITERATIONS, TRUE, c) : c \in BOOLEAN}
    \cup {Config("validate_and_fix", FALSE, DEFAULT_MAX_ITERATIONS, TRUE, TRUE)}

\* validate_and_fix_diagram(diagram, use_llm) without and with the collaborator
ScenarioConfigs ==
  {Config("validate_and_fix", FALSE, DEFAULT_MAX_ITERATIONS, llm, TRUE) : llm \in BOOLEAN}

\* fix(diagram, validation_result) with the caller's own validation of the
\* diagram
SuppliedInputs ==
  UNION {{[d |-> <<g>>, c |-> [DefaultFix EXCEPT !.supplied = <<v>>]] :
            v \in Validations(g, FALSE)} :
         g \in TypedGraphsOf(LLMKinds, MaxLLMNodes, TypedEdges)}

\* an input: the caller's diagram (<<>> is None, <<g>> a diagram) and the call
Inputs ==
  {[d |-> <<>>, c |-> c] : c \in AllConfigs}
    \cup {[d |-> <<g>>, c |-> c] : g \in EmptyGraphs, c \in AllConfigs}
    \cup {[d |-> <<g>>, c |-> c] : g \in TypedGraphsOf(SmallKinds, MaxSmallNodes, TypedEdges),
                                    c \in AllConfigs}
    \cup {[d |-> <<g>>, c |-> c] : g \in TypedGraphsOf(LLMKinds, MaxLLMNodes, {<<>>}),
                                    c \in LLMConfigs}
    \cup {[d |-> <<g>>, c |-> DefaultFix] :
            g \in TypedGraphsOf(Kinds, MaxTypedNodes, {<<MkEdge("n1", "n2")>>})}
    \cup {[d |-> <<g>>, c |-> DefaultFix] : g \in DupGraphs}
    \cup {[d |-> <<g>>, c |-> DefaultFix] : g \in CollidingGraphs}
    \cup {[d |-> <<g>>, c |-> DefaultFix] : g \in LabelGraphs}
    \cup {[d |-> <<ScenarioGraph>>, c |-> c] : c \in ScenarioConfigs}
    \cup SuppliedInputs
    \cup {[d |-> <<g>>, c |-> c] : g \in CycleGraphs,
            c \in {Config("validate", FALSE, DEFAULT_MAX_ITERATIONS, FALSE, TRUE)}}

\* ------------------------------------------------------------------------
\* State
\* ------------------------------------------------------------------------
VARIABLES
  heap,               \* the VisualNode and VisualEdge objects: [nodeObj, edgeObj]
  diagram,            \* the caller's diagram: <<>> (None) or <<[nodes, edges]>>
  snapshot,           \* the value of the caller's diagram when the call was made
  cfg,                \* entry point, strict_mode, max_iterations, use_llm, client
  pc,                 \* position in the call
  fixed_diagram,      \* fix(): the working diagram, <<>> before the copy
  iteration,          \* fix(): loop variable
  validation_result,  \* fix(): <<>> (None) or <<result>>
  all_changes,        \* fix(): changes so far
  all_fixed,          \* fix(): fixed issue codes so far
  llm_used,           \* fix(): llm_used
  llm_failed,         \* every collaborator call of the last Phase B failed
  generate_calls,     \* number of calls of the collaborator's generate()
  loops,              \* number of loop iterations started
  final_validations,  \* number of final validations run by fix()
  result              \* what the call returned

vars == <<heap, diagram, snapshot, cfg, pc, fixed_diagram, iteration, validation_result,
          all_changes, all_fixed, llm_used, llm_failed, generate_calls, loops,
          final_validations, result>>

NoResult == [graph |-> <<>>, validation |-> <<>>, fix_result |-> <<>>]

Init ==
  \E inp \in Inputs :
    /\ heap = IF inp.d = <<>> THEN [nodeObj |-> <<>>, edgeObj |-> <<>>]
              ELSE [nodeObj |-> inp.d[1].nodes, edgeObj |-> inp.d[1].edges]
    /\ diagram = IF inp.d = <<>> THEN <<>>
                 ELSE <<[nodes |-> [i \in 1..Len(inp.d[1].nodes) |-> i],
                         edges |-> [i \in 1..Len(inp.d[1].edges) |-> i]]>>
    /\ snapshot = inp.d
    /\ cfg = inp.c
    /\ pc = "idle"
    /\ fixed_diagram = <<>>
    /\ iteration = 0
    /\ validation_result = <<>>
    /\ all_changes = <<>>
    /\ all_fixed = <<>>
    /\ llm_used = FALSE
    /\ llm_failed = FALSE
    /\ generate_calls = 0
    /\ loops = 0
    /\ final_validations = 0
    /\ result = NoResult

\* the diagram a reference list denotes in the current heap
Obj(d) == [nodeObj |-> heap.nodeObj, edgeObj |-> heap.edgeObj,
           nodes |-> d.nodes, edges |-> d.edges]
Cur == Obj(fixed_diagram[1])
CurView == View(Cur)

\* store a diagram the fixer has worked on
Store(D) ==
  /\ heap' = [nodeObj |-> D.nodeObj, edgeObj |-> D.edgeObj]
  /\ fixed_diagram' = <<[nodes |-> D.nodes, edges |-> D.edges]>>

\* ------------------------------------------------------------------------
\* What the collaborator may answer
\* ------------------------------------------------------------------------
\* edges the collaborator proposes: between the first and the last node of
\* the diagram, either way, or from the first node to an id that does not
\* exist
Proposals(D) ==
  IF D.nodes = <<>> THEN {}
  ELSE
  LET first == NodeAt(D, 1).id
      last == NodeAt(D, Len(D.nodes)).id
  IN {[from |-> p[1], to |-> p[2], relation |-> "suggested"] :
        p \in {q \in {<<first, last>>, <<last, first>>, <<first, "ghost">>} : q[1] # q[2]}}

Responses(D) ==
  {LLMRaise, LLMText(FALSE, "none", <<>>), LLMText(TRUE, "object", <<>>),
   LLMText(FALSE, "array", <<>>)}
    \cup {LLMText(FALSE, "array", <<e>>) : e \in Proposals(D)}
    \cup {LLMText(TRUE, "array", <<e>>) : e \in {p \in Proposals(D) : p.to # "ghost"}}
    \cup {LLMText(FALSE, "array", <<e, f>>) :
            e \in {p \in Proposals(D) : p.to = "ghost"},
            f \in {p \in Proposals(D) : p.from # NodeAt(D, 1).id}}

\* ------------------------------------------------------------------------
\* Entry points
\* ------------------------------------------------------------------------
\* validate_diagram(diagram, strict)
CallValidate ==
  /\ pc = "idle"
  /\ cfg.api = "validate"
  /\ \E v \in (IF diagram = <<>> THEN {validate_none}
               ELSE Validations(View(Obj(diagram[1])), cfg.strict)) :
       result' = [graph |-> <<>>, validation |-> <<v>>, fix_result |-> <<>>]
  /\ pc' = "done"
  /\ UNCHANGED <<heap, diagram, snapshot, cfg, fixed_diagram, iteration, validation_result,
                 all_changes, all_fixed, llm_used, llm_failed, generate_calls, loops, final_validations>>

\* fix() up to the loop: the copy.  _deep_copy_diagram reads diagram.nodes,
\* which raises AttributeError on None.
EnterFix ==
  IF diagram = <<>>
    THEN /\ pc' = "raised"
         /\ UNCHANGED <<heap, fixed_diagram>>
    ELSE /\ pc' = "loop"
         /\ Store(deep_copy_diagram(heap, diagram[1]))

\* auto_fix_diagram(diagram, use_llm, max_iterations), which passes no
\* validation result, and DiagramAutoFixer(...).fix(diagram, validation_result)
CallFix ==
  /\ pc = "idle"
  /\ cfg.api = "fix"
  /\ EnterFix
  /\ validation_result' = cfg.supplied
  /\ UNCHANGED <<diagram, snapshot, cfg, iteration, all_changes,
                 all_fixed, llm_used, llm_failed, generate_calls, loops, final_validations, result>>

\* validate_and_fix_diagram(diagram, use_llm) up to the call of fix()
CallValidateAndFix ==
  /\ pc = "idle"
  /\ cfg.api = "validate_and_fix"
  /\ \E initial_result \in (IF diagram = <<>> THEN {validate_none}
                            ELSE Validations(View(Obj(diagram[1])), FALSE)) :
       IF initial_result.is_valid /\ initial_result.is_complete
         THEN /\ result' = [graph |-> diagram, validation |-> <<initial_result>>,
                            fix_result |-> <<FixResult(TRUE, "none", {}, <<>>,
                                                       <<"No fixes needed">>, FALSE)>>]
              /\ pc' = "done"
              /\ UNCHANGED <<heap, fixed_diagram>>
         ELSE /\ EnterFix
              /\ UNCHANGED result
  /\ UNCHANGED <<diagram, snapshot, cfg, iteration, validation_result, all_changes,
                 all_fixed, llm_used, llm_failed, generate_calls, loops, final_validations>>

\* ------------------------------------------------------------------------
\* The loop of fix()
\* ------------------------------------------------------------------------
\* loop head: validate (or reuse), break when valid and complete
LoopIterate ==
  /\ pc = "loop"
  /\ loop_continues(iteration, cfg.max_iterations)
  /\ \E v \in (IF must_validate(validation_result, iteration)
                 THEN Validations(CurView, FALSE) ELSE {validation_result[1]}) :
       /\ validation_result' = <<v>>
       /\ pc' = IF v.is_valid /\ v.is_complete THEN "final" ELSE "phaseA"
  /\ loops' = loops + 1
  /\ UNCHANGED <<heap, diagram, snapshot, cfg, fixed_diagram, iteration, all_changes,
                 all_fixed, llm_used, llm_failed, generate_calls, final_validations, result>>

\* range(max_iterations) is exhausted
LoopExhausted ==
  /\ pc = "loop"
  /\ ~loop_continues(iteration, cfg.max_iterations)
  /\ pc' = "final"
  /\ UNCHANGED <<heap, diagram, snapshot, cfg, fixed_diagram, iteration, validation_result,
                 all_changes, all_fixed, llm_used, llm_failed, generate_calls, loops, final_validations,
                 result>>

\* Phase 1: auto-fix simple issues
PhaseA ==
  /\ pc = "phaseA"
  /\ LET auto_issues == auto_issues_of(validation_result[1].issues)
         r == apply_auto_fixes([D |-> Cur, changes |-> <<>>, fixed |-> <<>>], auto_issues, 1)
     IN /\ Store(r.D)
        /\ all_changes' = all_changes \o r.changes
        /\ all_fixed' = all_fixed \o r.fixed
  /\ pc' = "phaseBC"
  /\ UNCHANGED <<diagram, snapshot, cfg, iteration, validation_result, llm_used, llm_failed, generate_calls,
                 loops, final_validations, result>>

\* variant: the client is consulted whatever use_llm says
llm_available_ignoring_use_llm == cfg.client_ok

\* self.use_llm and self.llm_client
llm_available == cfg.use_llm /\ cfg.client_ok

\* end of the loop body: validation_result = None, next iteration
NextIteration ==
  /\ validation_result' = <<>>
  /\ iteration' = iteration + 1
  /\ pc' = "loop"

\* Phase 2: LLM fixes for complex issues.  _apply_llm_fixes catches every
\* failure of the collaborator itself, so the except branch of fix() is
\* never taken.
PhaseB ==
  /\ pc = "phaseBC"
  /\ LET llm_issues == llm_issues_of(validation_result[1].issues) IN
     /\ llm_issues # <<>>
     /\ llm_available
     /\ \E resp1 \in (IF orphan_call_made(llm_issues) THEN Responses(Cur) ELSE {LLMRaise}),
           resp2 \in (IF connection_call_made(Cur, llm_issues) THEN Responses(Cur)
                      ELSE {LLMRaise}) :
          LET r == apply_llm_fixes(Cur, llm_issues, resp1, resp2) IN
          /\ Store(r.D)
          /\ all_changes' = all_changes \o r.changes
          /\ all_fixed' = all_fixed \o r.fixed
          /\ llm_failed' = /\ orphan_call_made(llm_issues) \/ connection_call_made(Cur, llm_issues)
                           /\ orphan_call_made(llm_issues) => call_failed(resp1)
                           /\ connection_call_made(Cur, llm_issues) => call_failed(resp2)
          /\ generate_calls' = generate_calls
                                 + (IF orphan_call_made(llm_issues) THEN 1 ELSE 0)
                                 + (IF connection_call_made(Cur, llm_issues) THEN 1 ELSE 0)
  /\ llm_used' = TRUE
  /\ NextIteration
  /\ UNCHANGED <<diagram, snapshot, cfg, loops, final_validations, result>>

\* Phase 3: fallback when no LLM is available
PhaseC ==
  /\ pc = "phaseBC"
  /\ LET llm_issues == llm_issues_of(validation_result[1].issues) IN
     /\ llm_issues # <<>>
     /\ ~llm_available
     /\ LET r == apply_fallback_fixes([D |-> Cur, changes |-> <<>>, fixed |-> <<>>],
                                      llm_issues, 1) IN
        /\ Store(r.D)
        /\ all_changes' = all_changes \o r.changes
        /\ all_fixed' = all_fixed \o r.fixed
  /\ NextIteration
  /\ UNCHANGED <<diagram, snapshot, cfg, llm_used, llm_failed, generate_calls, loops, final_validations,
                 result>>

\* neither branch applies: there is no LLM-fixable issue
NoComplexIssues ==
  /\ pc = "phaseBC"
  /\ llm_issues_of(validation_result[1].issues) = <<>>
  /\ NextIteration
  /\ UNCHANGED <<heap, diagram, snapshot, cfg, fixed_diagram, all_changes, all_fixed,
                 llm_used, llm_failed, generate_calls, loops, final_validations, result>>

\* final validation and the FixResult
FinalValidation ==
  /\ pc = "final"
  /\ \E final_validation \in Validations(CurView, FALSE) :
       result' = [graph |-> fixed_diagram,
                  validation |-> <<final_validation>>,
                  fix_result |-> <<FixResult(fix_success(final_validation),
                                             IF llm_used THEN "llm" ELSE "auto",
                                             SeqToSet(all_fixed),
                                             error_codes(final_validation.issues),
                                             all_changes, llm_used)>>]
  /\ final_validations' = final_validations + 1
  /\ pc' = IF cfg.api = "validate_and_fix" THEN "revalidate" ELSE "done"
  /\ UNCHANGED <<heap, diagram, snapshot, cfg, fixed_diagram, iteration, validation_result,
                 all_changes, all_fixed, llm_used, llm_failed, generate_calls, loops>>

\* validate_and_fix_diagram: final_result = validator.validate(fixed_diagram)
Revalidate ==
  /\ pc = "revalidate"
  /\ \E final_result \in Validations(CurView, FALSE) :
       result' = [result EXCEPT !.validation = <<final_result>>]
  /\ pc' = "done"
  /\ UNCHANGED <<heap, diagram, snapshot, cfg, fixed_diagram, iteration, validation_result,
                 all_changes, all_fixed, llm_used, llm_failed, generate_calls, loops, final_validations>>

Next ==
  \/ CallValidate
  \/ CallFix
  \/ CallValidateAndFix
  \/ LoopIterate
  \/ LoopExhausted
  \/ PhaseA
  \/ PhaseB
  \/ PhaseC
  \/ NoComplexIssues
  \/ FinalValidation
  \/ Revalidate

Spec == Init /\ [][Next]_vars

Positions == {"idle", "loop", "phaseA", "phaseBC", "final", "revalidate", "done", "raised"}

TypeOK == pc \in Positions

\* the call has neither returned nor raised
Running == pc \notin {"done", "raised"}

\* the call moves to its next position; every step of Next is such a step
Advance == Running /\ pc' \in Positions \ {pc}

\* a position from which the call can move: the choices of its step exist
CanAdvance ==
  /\ pc \in {"loop", "final", "revalidate"} => Validations(CurView, FALSE) # {}
  /\ pc = "phaseBC" => Responses(Cur) # {}
  /\ pc = "idle" => cfg.api \in {"validate", "fix", "validate_and_fix"}

\* fix() is sequential code: a call in progress always takes its next step
FairSpec == Spec /\ WF_pc(Advance)

\* ------------------------------------------------------------------------
\* Properties
\* ------------------------------------------------------------------------
Input == snapshot[1]
Returned == View(Obj(result.graph[1]))
FixDone == pc = "done" /\ result.fix_result # <<>> /\ fixed_diagram # <<>>
TheFixResult == result.fix_result[1]
FinalIssues == result.validation[1].issues
IdsOf(g) == [i \in 1..Len(g.nodes) |-> g.nodes[i].id]
AllDistinct(seq) == \A i, j \in 1..Len(seq) : i # j => seq[i] # seq[j]
Dangling(g) == {i \in 1..Len(g.edges) : g.edges[i].source \notin NodeIds(g)
                                        \/ g.edges[i].target \notin NodeIds(g)}
HasCode(issues, code) == \E i \in 1..Len(issues) : issues[i].code = code
HasCodeFor(issues, code, id) ==
  \E i \in 1..Len(issues) : issues[i].code = code /\ issues[i].node_id = id
PhaseAStep == pc = "phaseA" /\ pc' = "phaseBC"
DuplicatedIds == {validation_result[1].issues[k].node_id :
                    k \in {j \in 1..Len(validation_result[1].issues) :
                             validation_result[1].issues[j].code = "DUPLICATE_NODE_ID"}}

C2_CallerGraphUnchanged ==
  diagram # <<>> => View(Obj(diagram[1])) = Input

C2_Witness ==
  /\ FixDone
  /\ \E i \in 1..Len(Returned.nodes) : Returned.nodes[i].id \notin NodeIds(Input)
  /\ \E i \in 1..Len(Input.edges) : Input.edges[i] \notin SeqToSet(Returned.edges)
  /\ \E i \in 1..Len(Returned.edges) : Returned.edges[i] \notin SeqToSet(Input.edges)
  /\ View(Obj(diagram[1])) = Input

\* C3: when every collaborator call of a Phase B pass fails, the diagram
\* after the pass is the one the Phase C fallback produces for the same
\* issues.
C3_FallbackAfterLLMFailure ==
  [][(pc = "phaseBC" /\ pc' = "loop" /\ llm_available /\ llm_failed') =>
       CurView' = View(apply_fallback_fixes([D |-> Cur, changes |-> <<>>, fixed |-> <<>>],
                                            llm_issues_of(validation_result[1].issues),
                                            1).D)]_vars

\* C4: on None or on a diagram without nodes no entry point raises, the
\* validation is invalid with exactly one error issue, and fix reports
\* failure with that error code among issues_remaining.
C4_NullOrEmptyIsReported ==
  (snapshot = <<>> \/ Input.nodes = <<>>) =>
    /\ pc # "raised"
    /\ (pc = "done" =>
          /\ ~result.validation[1].is_valid
          /\ Len(error_codes(FinalIssues)) = 1
          /\ (cfg.api # "validate" =>
                /\ ~TheFixResult.success
                /\ error_codes(FinalIssues)[1] \in SeqToSet(TheFixResult.issues_remaining)))

\* C5: after a Phase A pass that handled DUPLICATE_NODE_ID for x, exactly one
\* node has id x, every other former x is x_<n> with n the smallest suffix
\* not in use, and all node ids are pairwise distinct.
C5_DuplicateIdsMadeUnique ==
  [][PhaseAStep =>
       LET pre == IdsOf(CurView) IN
       \A x \in DuplicatedIds :
         /\ Count(IdsOf(CurView)', x) = 1
         /\ AllDistinct(IdsOf(CurView)')
         /\ \A i \in 1..Len(pre) :
              pre[i] = x =>
                \/ IdsOf(CurView)'[i] = x
                \/ \E n \in 1..Len(pre) :
                     /\ IdsOf(CurView)'[i] = SuffixedId(x, n)
                     /\ SuffixedId(x, n) \notin SeqToSet(pre)
                     /\ \A m \in 1..(n - 1) :
                          SuffixedId(x, m) \in SeqToSet(IdsOf(CurView)')]_vars

\* C6: in a Phase A pass that renames duplicates of x, every edge that
\* referenced x before the pass and is still in the diagram references x,
\* the id of the surviving node, after it.
C6_EdgesFollowSurvivor ==
  [][PhaseAStep =>
       \A x \in DuplicatedIds :
         \A r \in SeqToSet(fixed_diagram[1].edges) \cap SeqToSet(fixed_diagram'[1].edges) :
           /\ heap.edgeObj[r].source = x => heap'.edgeObj[r].source = x
           /\ heap.edgeObj[r].target = x => heap'.edgeObj[r].target = x]_vars

\* C7: with the default max_iterations, a diagram that had an edge with a
\* non-existent endpoint is returned by fix without any such edge and the
\* final validation has no MISSING_SOURCE_NODE / MISSING_TARGET_NODE.
C7_NoDanglingEdgeAfterFix ==
  (FixDone /\ cfg.max_iterations = DEFAULT_MAX_ITERATIONS /\ Dangling(Input) # {}) =>
    /\ Dangling(Returned) = {}
    /\ ~HasCode(FinalIssues, "MISSING_SOURCE_NODE")
    /\ ~HasCode(FinalIssues, "MISSING_TARGET_NODE")

\* the edge relation of a diagram and its cycles, computed independently of
\* the validator
EdgePairs(g) == {<<g.edges[i].source, g.edges[i].target>> : i \in 1..Len(g.edges)}
RECURSIVE ReachFrom(_, _, _)
ReachFrom(E, frontier, seen) ==
  LET next == {p[2] : p \in {q \in E : q[1] \in frontier}} \ seen IN
  IF next = {} THEN seen ELSE ReachFrom(E, next, seen \cup next)
OnCycle(E, n) == n \in ReachFrom(E, {n}, {})
Acyclic(g) == \A n \in ConnectedIds(g) : ~OnCycle(EdgePairs(g), n)
Triangle(g) ==
  \E a, b, c \in NodeIds(g) :
    /\ a # b /\ b # c /\ a # c
    /\ EdgePairs(g) = {<<a, b>>, <<b, c>>, <<c, a>>}
CycleIssues(issues) == SelectSeq(issues, LAMBDA i : i.code = "CIRCULAR_DEPENDENCY")
\* the diagram the validation in result was computed for
Validated == IF cfg.api = "validate" THEN Input ELSE Returned

\* C8: validate reports exactly one CIRCULAR_DEPENDENCY, a rotation of the
\* cycle, when the edges are exactly one cycle a -> b -> c -> a, and none
\* when the edges are acyclic.
C8_CycleDetection ==
  (pc = "done" /\ result.validation # <<>> /\ (cfg.api = "validate" => snapshot # <<>>)) =>
    LET cyc == CycleIssues(FinalIssues) IN
    /\ Triangle(Validated) =>
         /\ Len(cyc) = 1
         /\ Len(cyc[1].cycle) = 4
         /\ cyc[1].cycle[1] = cyc[1].cycle[4]
         /\ \A k \in 1..3 : <<cyc[1].cycle[k], cyc[1].cycle[k + 1]>> \in EdgePairs(Validated)
    /\ Acyclic(Validated) => cyc = <<>>

C8_Witness ==
  /\ pc = "done"
  /\ cfg.api = "validate"
  /\ snapshot # <<>>
  /\ Triangle(Input)
  /\ Input.nodes[1].id = "C"
  /\ CycleIssues(FinalIssues)[1].cycle = <<"C", "B", "A", "C">>

\* an isolated database node of the input, by position
IsolatedDatabase(g, i) ==
  /\ g.nodes[i].node_type = "database"
  /\ g.nodes[i].id \notin ConnectedIds(g)
DatabaseRepaired(id) ==
  /\ Incoming(Returned, id) >= 1
  /\ ~HasCodeFor(FinalIssues, "ORPHANED_NODE", id)
  /\ ~HasCodeFor(FinalIssues, "DATABASE_NO_INCOMING", id)

\* C9 as stated: after fix without LLM every isolated database node has an
\* incoming edge and neither ORPHANED_NODE nor DATABASE_NO_INCOMING.
C9_Original ==
  (FixDone /\ ~cfg.use_llm /\ cfg.max_iterations = DEFAULT_MAX_ITERATIONS) =>
    \A i \in 1..Len(Input.nodes) :
      IsolatedDatabase(Input, i) => DatabaseRepaired(Input.nodes[i].id)

HasServiceOrWebApp(g) ==
  \E i \in 1..Len(g.nodes) : g.nodes[i].node_type \in {"service", "web_app"}

\* C9 amended: the same, for diagrams with pairwise distinct non-empty node
\* ids that contain a service or web_app node, and max_iterations >= 1.
C9_DatabaseConnected ==
  (FixDone /\ ~cfg.use_llm /\ cfg.max_iterations >= 1 /\ HasServiceOrWebApp(Input)
     /\ AllDistinct(IdsOf(Input)) /\ "" \notin NodeIds(Input)) =>
    \A i \in 1..Len(Input.nodes) :
      IsolatedDatabase(Input, i) => DatabaseRepaired(Input.nodes[i].id)

C9_Witness ==
  /\ FixDone /\ ~cfg.use_llm
  /\ Len(Input.nodes) = 3
  /\ Input.edges # <<>>
  /\ IsolatedDatabase(Input, 3)
  /\ Input.nodes[1].node_type = "service"
  /\ DatabaseRepaired(Input.nodes[3].id)

TwoExternalOrphans(g) ==
  /\ Len(g.nodes) = 2
  /\ g.edges = <<>>
  /\ \A i \in 1..2 : g.nodes[i].node_type = "external"
  /\ g.nodes[1].id # g.nodes[2].id
  /\ \A i \in 1..2 : ~StartsWith(g.nodes[i].group, PATTERN_PREFIX)

SelfLoops(g) == {i \in 1..Len(g.edges) : g.edges[i].source = g.edges[i].target}
Renamed(before, after) ==
  {i \in 1..Len(before.nodes) : i > Len(after.nodes) \/ after.nodes[i].id # before.nodes[i].id}

\* C11: on the end-to-end scenario validate_and_fix_diagram returns 5 nodes
\* with pairwise distinct ids of which exactly one is renamed, no self-loop,
\* an incoming edge on ordersDb and a valid final validation.
C11_EndToEndScenario ==
  (pc = "done" /\ cfg.api = "validate_and_fix" /\ snapshot = <<ScenarioGraph>>) =>
    /\ Len(Returned.nodes) = 5
    /\ AllDistinct(IdsOf(Returned))
    /\ Cardinality(Renamed(Input, Returned)) = 1
    /\ SelfLoops(Returned) = {}
    /\ Incoming(Returned, "ordersDb") >= 1
    /\ result.validation[1].is_valid

\* what the first validation of validate_and_fix_diagram can be
InitialValidations ==
  IF snapshot = <<>> THEN {validate_none} ELSE Validations(Input, FALSE)
NoOpFixResult == FixResult(TRUE, "none", {}, <<>>, <<"No fixes needed">>, FALSE)
\* the call returned without entering fix()
ShortCircuited == pc = "done" /\ fixed_diagram = <<>>

\* C12: validate_and_fix_diagram never raises; it returns the caller's graph,
\* the initial validation and the no-op FixResult, without a loop iteration
\* or a collaborator call, exactly when the initial validation is valid and
\* complete, and otherwise the graph and FixResult of fix() with a fresh
\* validation of that graph.
C12_ShortCircuit ==
  cfg.api = "validate_and_fix" =>
    /\ pc # "raised"
    /\ (pc = "done" =>
          /\ ShortCircuited <=> \A v \in InitialValidations : v.is_valid /\ v.is_complete
          /\ ShortCircuited =>
                /\ result.graph = diagram
                /\ Returned = Input
                /\ result.validation[1] \in InitialValidations
                /\ TheFixResult = NoOpFixResult
                /\ loops = 0 /\ final_validations = 0 /\ ~llm_used
          /\ ~ShortCircuited =>
                /\ result.graph = fixed_diagram
                /\ final_validations = 1
                /\ TheFixResult.fix_type \in {"auto", "llm"}
                /\ result.validation[1] \in Validations(Returned, FALSE))

\* stats.get("orphaned_nodes", 0)
OrphanCount(v) == IF "orphaned_nodes" \in DOMAIN v.stats THEN v.stats.orphaned_nodes ELSE 0
FlagsAsSpecified(v, strict) ==
  /\ v.is_valid <=> (~HasSeverity(v.issues, ERROR)
                       /\ (strict => ~HasSeverity(v.issues, WARNING)))
  /\ v.is_complete <=> (v.is_valid /\ OrphanCount(v) = 0)
  /\ v.is_complete => v.is_valid

\* C13: in every validation result, is_valid holds iff there is no error
\* issue (in strict mode: and no warning issue), and is_complete holds iff
\* is_valid holds and the orphan count is 0.
C13_ValidityFlags ==
  /\ validation_result # <<>> => FlagsAsSpecified(validation_result[1], FALSE)
  /\ result.validation # <<>> =>
        FlagsAsSpecified(result.validation[1], cfg.api = "validate" /\ cfg.strict)

\* the issues the classifier puts in neither bucket
Unclassified(issues) ==
  SelectSeq(issues, LAMBDA i : i.code \notin AUTO_FIXABLE \cup LLM_FIXABLE)
Classified ==
  LET issues == validation_result[1].issues
      auto_issues == auto_issues_of(issues)
      llm_issues == llm_issues_of(issues)
  IN /\ AUTO_FIXABLE \cap LLM_FIXABLE = {}
     /\ \A k \in 1..Len(auto_issues) : auto_issues[k].code \in AUTO_FIXABLE
     /\ \A k \in 1..Len(llm_issues) : llm_issues[k].code \in LLM_FIXABLE
     /\ Len(auto_issues) + Len(llm_issues) + Len(Unclassified(issues)) = Len(issues)
\* the fixer resolves no issue it does not classify
UnclassifiedKept ==
  \A v \in Validations(Input, FALSE) :
    Len(Unclassified(FinalIssues)) >= Len(Unclassified(v.issues))

FixReturned == pc \in {"revalidate", "done"} /\ result.fix_result # <<>> /\ fixed_diagram # <<>>

\* C15: whenever fix returns, success is is_valid of every validation of the
\* returned graph, i.e. true iff that graph has no error issue; when
\* validate_and_fix_diagram returns after fix, fix_result.success equals
\* final_validation.is_valid.
C15_SuccessIsFinalValidity ==
  /\ FixReturned =>
        \A v \in Validations(Returned, FALSE) :
          /\ TheFixResult.success = v.is_valid
          /\ TheFixResult.success <=> ~HasSeverity(v.issues, ERROR)
  /\ (FixDone /\ cfg.api = "validate_and_fix") =>
        TheFixResult.success = result.validation[1].is_valid

C15_Witness ==
  /\ FixDone
  /\ cfg.api = "validate_and_fix"
  /\ TheFixResult.issues_fixed # {}
  /\ ~TheFixResult.success
  /\ ~result.validation[1].is_valid

\* the tier of a change, read from its text in changes_made
FALLBACK_TEXTS == {"Applied fallback fix for orphan: ", "Connected actor to first service: ",
                   "Connected service to database: ", "Connected isolated service: ",
                   "Created basic edge structure"}
IsFallbackChange(text) == \E prefix \in FALLBACK_TEXTS : StartsWith(text, prefix)
IsLLMChange(text) == StartsWith(text, "Added ")
HasFallbackChange(changes) == \E k \in 1..Len(changes) : IsFallbackChange(changes[k])
HasLLMChange(changes) == \E k \in 1..Len(changes) : IsLLMChange(changes[k])

\* C16: fix_type is 'fallback' whenever Phase C heuristics changed the
\* diagram, 'llm' only when edges suggested by the collaborator were applied,
\* 'auto' when neither happened, and llm_used is true only if the
\* collaborator contributed a change.
C16_FixTypeReportsTier ==
  FixReturned =>
    LET changes == TheFixResult.changes_made
        by_fallback == HasFallbackChange(changes)
        by_llm == HasLLMChange(changes)
    IN /\ by_fallback => TheFixResult.fix_type = "fallback"
       /\ TheFixResult.fix_type = "llm" => by_llm
       /\ (~by_fallback /\ ~by_llm) => TheFixResult.fix_type = "auto"
       /\ TheFixResult.llm_used => by_llm

\* the path of a CIRCULAR_DEPENDENCY issue as rendered in its message,
\* " -> ".join(cycle), and read back
RenderedPath(issue) == Split(Join(issue.cycle, ARROW), ARROW)
GenuineCycle(g, path) ==
  /\ Len(path) >= 2
  /\ path[1] = path[Len(path)]
  /\ \A k \in 1..(Len(path) - 1) : <<path[k], path[k + 1]>> \in EdgePairs(g)

\* C17: every CIRCULAR_DEPENDENCY issue of a validation renders a path that
\* begins and ends with the same node id and follows edges of the graph; at
\* most 3 are reported and no two render the same path.
C17_ReportedCyclesAreCycles ==
  (pc = "done" /\ result.validation # <<>> /\ (cfg.api = "validate" => snapshot # <<>>)) =>
    LET cyc == CycleIssues(FinalIssues) IN
    /\ Len(cyc) <= MAX_REPORTED_CYCLES
    /\ \A k \in 1..Len(cyc) : GenuineCycle(Validated, RenderedPath(cyc[k]))
    /\ \A j, k \in 1..Len(cyc) : j # k => RenderedPath(cyc[j]) # RenderedPath(cyc[k])

AUTO_TEXTS == {"Renamed duplicate node: ", "Removed duplicate edge: ",
               "Removed edge with missing source: ", "Removed edge with missing target: ",
               "Removed self-loop on: ", "Set default label for: "}
IsAutoChange(text) == \E prefix \in AUTO_TEXTS : StartsWith(text, prefix)
HasAutoChange(changes) == \E k \in 1..Len(changes) : IsAutoChange(changes[k])
\* the changes a step appends to all_changes
NewChanges == SubSeq(all_changes', Len(all_changes) + 1, Len(all_changes'))

\* C18: in every iteration Phase A comes first, then Phase B or Phase C:
\* deterministic changes are made only in Phase A, the collaborator is
\* called and llm_used is set only after Phase A when use_llm is true and a
\* client is available, and heuristic changes are made only after Phase A in
\* an iteration without a collaborator call.  With use_llm = false generate
\* is never called and llm_used stays false.
C18_PhasesOrderedAndGated ==
  /\ [](~cfg.use_llm => generate_calls = 0 /\ ~llm_used)
  /\ [][/\ pc' = "phaseA" => pc = "loop"
        /\ pc' = "phaseBC" => pc = "phaseA"
        /\ pc = "phaseBC" => pc' = "loop" /\ iteration' = iteration + 1
        /\ HasAutoChange(NewChanges) => pc = "phaseA"
        /\ (HasLLMChange(NewChanges) \/ generate_calls' # generate_calls \/ llm_used' # llm_used)
             => pc = "phaseBC" /\ cfg.use_llm /\ cfg.client_ok
        /\ HasFallbackChange(NewChanges)
             => pc = "phaseBC" /\ ~(cfg.use_llm /\ cfg.client_ok)
                  /\ generate_calls' = generate_calls]_vars

C18_Witness ==
  /\ FixDone
  /\ cfg.use_llm
  /\ generate_calls >= 2
  /\ HasAutoChange(all_changes)
  /\ HasLLMChange(all_changes)
  /\ ~HasFallbackChange(all_changes)

\* the first validation result the loop uses
FirstInUse ==
  IF cfg.supplied # <<>> THEN {cfg.supplied[1]} ELSE Validations(Input, FALSE)
LoopHeadStep == pc = "loop" /\ loops' = loops + 1

\* C19: at the head of the loop the supplied validation result is the one
\* used on iteration 0 and the current graph is validated on every later
\* iteration (and on iteration 0 when nothing was supplied); a valid and
\* complete result ends the loop and nothing is changed afterwards, so when
\* the first result in use is valid and complete fix returns a graph equal
\* to the input with empty changes_made and issues_fixed.
C19_SuppliedResultUsedOnce ==
  /\ [][LoopHeadStep =>
          /\ (iteration = 0 /\ cfg.supplied # <<>>) => validation_result' = cfg.supplied
          /\ (iteration > 0 \/ cfg.supplied = <<>>) =>
                validation_result'[1] \in Validations(CurView, FALSE)
          /\ pc' = IF validation_result'[1].is_valid /\ validation_result'[1].is_complete
                     THEN "final" ELSE "phaseA"
          /\ (UNCHANGED <<heap, fixed_diagram, all_changes, all_fixed>>)]_vars
  /\ [][(pc \in {"final", "revalidate"}) =>
          (UNCHANGED <<heap, fixed_diagram, all_changes, all_fixed>>)]_vars
  /\ []((FixReturned /\ \A v \in FirstInUse : v.is_valid /\ v.is_complete) =>
          /\ Returned = Input
          /\ TheFixResult.changes_made = <<>>
          /\ TheFixResult.issues_fixed = {})

C19_Witness ==
  /\ FixDone
  /\ cfg.supplied # <<>>
  /\ ~cfg.supplied[1].is_complete
  /\ Cardinality(Validations(Input, FALSE)) > 1
  /\ loops = 2
  /\ validation_result # <<>>
  /\ validation_result[1].is_complete
  /\ Returned # Input

\* C20: with the default max_iterations, a diagram that had an edge with
\* source = target is returned by fix without any such edge and the final
\* validation has no SELF_LOOP.
C20_SelfLoopsRemoved ==
  (FixDone /\ cfg.max_iterations = DEFAULT_MAX_ITERATIONS /\ SelfLoops(Input) # {}) =>
    /\ SelfLoops(Returned) = {}
    /\ ~HasCode(FinalIssues, "SELF_LOOP")

\* a Phase B pass: the collaborator is available and there is an issue for it
PhaseBReady ==
  /\ pc = "phaseBC"
  /\ llm_available
  /\ llm_issues_of(validation_result[1].issues) # <<>>
EndpointsKnown(g, e) == e.source \in NodeIds(g) /\ e.target \in NodeIds(g)
Proposes(item, e) == item.from = e.source /\ item.to = e.target

\* C21: a Phase B pass leaves the nodes and the existing edges alone and
\* every edge it appends has its source and its target among the node ids;
\* for every response, no proposal with an unknown endpoint becomes an edge,
\* and a raised call or a text without a JSON array gives no edge.
C21_LLMEdgesHaveKnownEndpoints ==
  /\ [][PhaseBReady =>
          /\ CurView'.nodes = CurView.nodes
          /\ Len(CurView'.edges) >= Len(CurView.edges)
          /\ SubSeq(CurView'.edges, 1, Len(CurView.edges)) = CurView.edges
          /\ \A k \in (Len(CurView.edges) + 1)..Len(CurView'.edges) :
               EndpointsKnown(CurView', CurView'.edges[k])]_vars
  /\ [](PhaseBReady =>
          \A resp \in Responses(Cur) :
            LET es == suggested_edges(Cur, resp) IN
            /\ (resp.kind = "raise" \/ resp.json # "array") => es = <<>>
            /\ \A k \in 1..Len(es) : EndpointsKnown(CurView, es[k])
            /\ \A i \in 1..Len(resp.items) :
                 (resp.items[i].from \notin NodeIds(CurView)
                    \/ resp.items[i].to \notin NodeIds(CurView)) =>
                   \A k \in 1..Len(es) : ~Proposes(resp.items[i], es[k]))

C21_Witness ==
  /\ pc = "loop"
  /\ llm_used
  /\ generate_calls >= 1
  /\ \E k \in 1..Len(CurView.edges) : CurView.edges[k].relation = "suggested"
  /\ \E resp \in Responses(Cur) :
       /\ Len(resp.items) = 2
       /\ Len(suggested_edges(Cur, resp)) = 1

\* the proposals of a response whose endpoints are node ids, as solid edges
ValidProposals(g, items) ==
  LET ok == SelectSeq(items, LAMBDA e : e.from \in NodeIds(g) /\ e.to \in NodeIds(g))
  IN [k \in 1..Len(ok) |-> VisualEdge(ok[k].from, ok[k].to, ok[k].relation, "solid")]

\* C23: for every response text that contains a JSON array of proposals,
\* alone or surrounded by prose, the edges taken from it are the valid
\* proposals of that array; a response without an array gives the empty edge
\* list, and no response makes the call raise.
C23_TolerantParsing ==
  /\ cfg.api # "validate" /\ snapshot # <<>> => pc # "raised"
  /\ PhaseBReady =>
       \A resp \in Responses(Cur) :
         /\ (resp.kind = "text" /\ resp.json = "array") =>
               suggested_edges(Cur, resp) = ValidProposals(CurView, resp.items)
         /\ (resp.kind = "raise" \/ resp.json # "array") =>
               suggested_edges(Cur, resp) = <<>>

\* a Phase C pass: there is an issue for it and no collaborator
PhaseCReady ==
  /\ pc = "phaseBC"
  /\ ~llm_available
  /\ llm_issues_of(validation_result[1].issues) # <<>>
FallbackIssues == llm_issues_of(validation_result[1].issues)
\* the diagram of a Phase C pass after its first k issues
FallbackAfter(k) ==
  View(apply_fallback_fixes([D |-> Cur, changes |-> <<>>, fixed |-> <<>>],
                            SubSeq(FallbackIssues, 1, k), 1).D)
HasType(g, types) == \E i \in 1..Len(g.nodes) : g.nodes[i].node_type \in types
\* a connection target the type of node n asks for exists in g
TypedTargetExists(g, n) ==
  CASE n.node_type = "actor" -> HasType(g, {"web_app", "service", "gateway"})
    [] n.node_type = "database" -> HasType(g, {"service", "web_app"})
    [] n.node_type \in {"service", "web_app"} ->
         \/ \E i \in 1..Len(g.nodes) : /\ g.nodes[i].node_type \in {"service", "web_app"}
                                       /\ g.nodes[i].id # n.id
         \/ HasType(g, {"database"})
    [] n.node_type \in {"cache", "queue", "gateway", "infrastructure"} ->
         HasType(g, {"service", "web_app"})
    [] OTHER -> FALSE
IsPattern(n) == Truthy(n.group) /\ StartsWith(n.group, PATTERN_PREFIX)
\* positions of the nodes of before that are not in after
Gone(before, after) ==
  {i \in 1..Len(before.nodes) : before.nodes[i] \notin SeqToSet(after.nodes)}
Mentions(g, id) == \E j \in 1..Len(g.edges) : g.edges[j].source = id \/ g.edges[j].target = id

\* C22: for every ORPHANED_NODE issue of a Phase C pass, a node the fix
\* deletes has a group starting with "pattern_" and no type-directed target,
\* no remaining edge references a deleted id, and a non-pattern orphan
\* without a type-directed target, when another node exists, keeps all nodes
\* and gets one new edge from it to another node.
C22_OrphanDeletedAsLastResort ==
  PhaseCReady =>
    \A k \in 1..Len(FallbackIssues) :
      FallbackIssues[k].code = "ORPHANED_NODE" =>
        LET before == FallbackAfter(k - 1)
            after == FallbackAfter(k)
            id == FallbackIssues[k].node_id
            at == {i \in 1..Len(before.nodes) : before.nodes[i].id = id}
        IN /\ \A i \in Gone(before, after) :
                /\ IsPattern(before.nodes[i])
                /\ ~TypedTargetExists(before, before.nodes[i])
                /\ ~Mentions(after, before.nodes[i].id)
           /\ \A i \in at :
                (/\ \A j \in at : i <= j
                 /\ ~IsPattern(before.nodes[i])
                 /\ ~TypedTargetExists(before, before.nodes[i])
                 /\ Len(before.nodes) > 1) =>
                  /\ after.nodes = before.nodes
                  /\ Len(after.edges) = Len(before.edges) + 1
                  /\ SubSeq(after.edges, 1, Len(before.edges)) = before.edges
                  /\ after.edges[Len(after.edges)].source = id
                  /\ after.edges[Len(after.edges)].target \in NodeIds(before)

\* the input has no error-severity issue
InputValid == \A v \in Validations(Input, FALSE) : v.is_valid

\* C24: when the input graph has no error issue, fix returns success and a
\* graph with at least one node, pairwise distinct node ids and no dangling
\* edge.
C24_RepairNeverWorsens ==
  (FixReturned /\ InputValid) =>
    /\ TheFixResult.success
    /\ Returned.nodes # <<>>
    /\ AllDistinct(IdsOf(Returned))
    /\ Dangling(Returned) = {}

\* between iterations, and once the loop is over
IterationBoundary == pc \in {"loop", "final", "revalidate", "done"}

\* C25: when every edge endpoint of the input is a node id, every edge
\* endpoint of the working graph is the id of one of its nodes after each
\* iteration, and so it is in the returned graph.
C25_ReferentialIntegrityKept ==
  (fixed_diagram # <<>> /\ Dangling(Input) = {}) =>
    /\ IterationBoundary => Dangling(CurView) = {}
    /\ FixDone => Dangling(Returned) = {}

\* node b is node a, possibly under a renamed id a.id_<n>
SameNodeUpToRename(a, b) ==
  /\ b.node_type = a.node_type
  /\ b.layer = a.layer
  /\ b.group = a.group
  /\ b.details = a.details
  /\ b.id = a.id \/ StartsWith(b.id, a.id \o "_")
NonPattern(g) == {i \in 1..Len(g.nodes) : ~IsPattern(g.nodes[i])}

\* C26: the graph fix returns has at most as many nodes as the input, as
\* many nodes without a "pattern_" group as the input, and for every such
\* node of the input a node that is it, under its id or a renamed id.
C26_OnlyPatternNodesRemoved ==
  FixReturned =>
    /\ Len(Returned.nodes) <= Len(Input.nodes)
    /\ Cardinality(NonPattern(Returned)) = Cardinality(NonPattern(Input))
    /\ \A i \in NonPattern(Input) :
         \E j \in 1..Len(Returned.nodes) :
           SameNodeUpToRename(Input.nodes[i], Returned.nodes[j])

EdgeTriples(g) ==
  [i \in 1..Len(g.edges) |-> <<g.edges[i].source, g.edges[i].target, g.edges[i].relation>>]
NoDuplicateEdges(g) == AllDistinct(EdgeTriples(g))

\* C27: with use_llm = false, when no two edges of the input have the same
\* (source, target, relation), no two edges of the graph fix returns have,
\* and the final validation reports no DUPLICATE_EDGE.
C27_FallbackAddsNoDuplicateEdge ==
  (FixDone /\ ~cfg.use_llm /\ NoDuplicateEdges(Input)) =>
    /\ NoDuplicateEdges(Returned)
    /\ ~HasCode(FinalIssues, "DUPLICATE_EDGE")

\* C28: with use_llm = false, when the edges of the input are acyclic, the
\* edges of the graph fix returns are acyclic and the final validation
\* reports no CIRCULAR_DEPENDENCY.
C28_FallbackAddsNoCycle ==
  (FixDone /\ ~cfg.use_llm /\ Acyclic(Input)) =>
    /\ Acyclic(Returned)
    /\ ~HasCode(FinalIssues, "CIRCULAR_DEPENDENCY")

\* C29: when fix returns after max_iterations >= 1, no issue code is both in
\* issues_fixed and in issues_remaining.
C29_FixedAndRemainingDisjoint ==
  (FixReturned /\ cfg.max_iterations >= 1) =>
    TheFixResult.issues_fixed \cap SeqToSet(TheFixResult.issues_remaining) = {}

\* C30: in the graph fix returns, a node whose label was not blank in the
\* input has that label, and a node whose label was blank and whose id is
\* not empty has the label made from its id (the id it had or the id it was
\* renamed to).
C30_OnlyBlankLabelsChanged ==
  (FixDone /\ Len(Returned.nodes) = Len(Input.nodes)) =>
    \A i \in 1..Len(Input.nodes) :
      LET before == Input.nodes[i]
          after == Returned.nodes[i]
      IN /\ ~BlankLabel(before.label) => after.label = before.label
         /\ (BlankLabel(before.label) /\ before.id # "") =>
               after.label \in {DefaultLabel(before.id), DefaultLabel(after.id)}

====
